---------------------------- MODULE Spec2Model ----------------------------
(***************************************************************************)
(* rplaid: the request dispatcher of the Plaid client (Plaid::request in   *)
(* src/client.rs), the request construction of the Endpoint trait          *)
(* (src/model/common.rs), the sans-IO request builder and response        *)
(* interpreter (src/api.rs), Plaid::reset_login, the serde_json codec of   *)
(* the response structs, the pagination stream Plaid::transactions_iter    *)
(* and the Builder of the client.                                          *)
(*                                                                         *)
(* Strings that the code concatenates or parses (domains, paths, URIs) are *)
(* sequences of lexemes: a delimiter ("://", "/", "?", "#") is a lexeme of *)
(* its own, every other lexeme is delimiter-free text.  Other strings      *)
(* (header values, JSON strings) are opaque TLA+ strings.                  *)
(***************************************************************************)
EXTENDS Integers, Sequences, FiniteSets, TLC

VARIABLES
    env,          \* Plaid.env / Conf.environment
    credentials,  \* Plaid.credentials / Conf.credentials
    pc,           \* position of the caller: "idle", "awaiting" (inside send), "done"
    endpoint,     \* the endpoint value of the call in progress
    post,         \* the request handed to the transport by Plaid::request
    sends,        \* number of times HttpClient::send was invoked by this call
    response,     \* what the transport returned
    outcome,      \* how the call of Plaid::request ended
    apiResult,    \* the value returned by api::create_link_token
    resetLogin,   \* the value returned by Plaid::reset_login
    apiResponse,  \* the http::Response handed to api::create_link_token_response
    apiInterpreted, \* the value api::create_link_token_response returned
    codec,        \* a value, its serde_json serialization and what that parses to
    baseReq,      \* the base GetTransactionsRequest given to transactions_iter
    server,       \* the transaction list the server holds
    iters,        \* the streams made by transactions_iter, by consumer
    builder,      \* the fields of a Builder
    calls,        \* the with_* calls made on the Builder, in order
    built         \* the client Builder::build returned

\* The state outside the dispatcher: a call of Plaid::request leaves it alone.
opsVars == <<resetLogin, apiResponse, apiInterpreted, codec>>
streamVars == <<baseReq, server, iters>>
builderVars == <<builder, calls, built>>
extVars == <<opsVars, streamVars, builderVars>>

vars == <<env, credentials, pc, endpoint, post, sends, response, outcome, apiResult,
          extVars>>

-----------------------------------------------------------------------------
(* Bounds of the model.                                                    *)

\* Largest number of members of a JSON object sent by the server.
MaxMembers == 3

\* Bounds of the pagination model: the longest transaction list the server
\* holds, the largest count and offset a caller writes into the options, and
\* the number of elements a consumer asks a stream for.
MaxN == 4
MaxCount == 2
MaxOffset == 2
MaxPulls == 5

\* The number of with_* calls made on one Builder.
MaxCalls == 3

-----------------------------------------------------------------------------
(* client.rs: constants, Environment, Credentials.                         *)

SANDBOX_DOMAIN == <<"https", "://", "sandbox.plaid.com">>
DEVELOPMENT_DOMAIN == <<"https", "://", "development.plaid.com">>
PRODUCTION_DOMAIN == <<"https", "://", "production.plaid.com">>

Sandbox == [kind |-> "Sandbox", s |-> <<>>]
Development == [kind |-> "Development", s |-> <<>>]
Production == [kind |-> "Production", s |-> <<>>]
Custom(s) == [kind |-> "Custom", s |-> s]

\* The strings given to Environment::Custom: a base URL with scheme (the
\* documented use) and a bare authority.
CustomDomains == {<<"http", "://", "localhost:3000">>, <<"localhost:3000">>}

Environment == {Sandbox, Development, Production} \cup {Custom(s) : s \in CustomDomains}

\* impl ToString for Environment
to_string(e) ==
    CASE e.kind = "Sandbox" -> SANDBOX_DOMAIN
      [] e.kind = "Development" -> DEVELOPMENT_DOMAIN
      [] e.kind = "Production" -> PRODUCTION_DOMAIN
      [] e.kind = "Custom" -> e.s

Credentials ==
    { [client_id |-> "fake-client-id", secret |-> "client-secret"],
      [client_id |-> "", secret |-> ""] }

-----------------------------------------------------------------------------
(* JSON values and bodies, as the codec (serde_json) sees them.            *)

JStr(s) == [t |-> "str", s |-> s, n |-> 0, b |-> FALSE]
JNum(n) == [t |-> "num", s |-> "", n |-> n, b |-> FALSE]
JBool(b) == [t |-> "bool", s |-> "", n |-> 0, b |-> b]
JNull == [t |-> "null", s |-> "", n |-> 0, b |-> FALSE]

\* A body that is not a JSON object.
Malformed == [json |-> FALSE, obj |-> <<>>]
Object(o) == [json |-> TRUE, obj |-> o]

None == <<>>
Some(v) == <<v>>

\* #[serde(rename_all = "SCREAMING_SNAKE_CASE")] enum ErrorType
ErrorTypeNames ==
    [ INVALID_REQUEST |-> "InvalidRequest",
      INVALID_RESULT |-> "InvalidResult",
      INVALID_INPUT |-> "InvalidInput",
      INSTITUTION_ERROR |-> "InstitutionError",
      RATE_LIMIT_EXCEEDED |-> "RateLimitExceeded",
      API_ERROR |-> "ApiError",
      ITEM_ERROR |-> "ItemError",
      ASSET_REPORT_ERROR |-> "AssetReportError",
      RECAPTCHA_ERROR |-> "RecaptchaError",
      OAUTH_ERROR |-> "OauthError",
      PAYMENT_ERROR |-> "PaymentError",
      BANK_TRANSFER_ERROR |-> "BankTransferError" ]

\* Field types of the derived Deserialize implementations.
TString == [ty |-> "String", opt |-> FALSE]
TBool == [ty |-> "bool", opt |-> FALSE]
TOptString == [ty |-> "String", opt |-> TRUE]
TOptU32 == [ty |-> "u32", opt |-> TRUE]
TOptErrorType == [ty |-> "ErrorType", opt |-> TRUE]

\* Whether JSON value v is accepted for a field of type ty.  Every number the
\* model can hold lies below u32::MAX, so a u32 only refuses negative numbers.
Accepts(ty, v) ==
    CASE ty = "String" -> v.t = "str"
      [] ty = "bool" -> v.t = "bool"
      [] ty = "u32" -> v.t = "num" /\ v.n >= 0
      [] ty = "ErrorType" -> v.t = "str" /\ v.s \in DOMAIN ErrorTypeNames

\* The Rust value a JSON value accepted for type ty decodes to.
Decode(ty, v) ==
    CASE ty = "String" -> v.s
      [] ty = "bool" -> v.b
      [] ty = "u32" -> v.n
      [] ty = "ErrorType" -> ErrorTypeNames[v.s]

\* Whether the derived Deserialize of a struct with the given field types
\* accepts the body: unknown members are ignored, an Option field may be
\* absent or null, any other field must be present with a value of its type.
Parses(body, shape) ==
    /\ body.json
    /\ \A f \in DOMAIN shape :
         IF f \in DOMAIN body.obj /\ body.obj[f].t # "null"
         THEN Accepts(shape[f].ty, body.obj[f])
         ELSE shape[f].opt

\* The struct value the body deserializes to (for a body that Parses).
Deserialize(body, shape) ==
    [ f \in DOMAIN shape |->
        IF f \in DOMAIN body.obj /\ body.obj[f].t # "null"
        THEN IF shape[f].opt
             THEN Some(Decode(shape[f].ty, body.obj[f]))
             ELSE Decode(shape[f].ty, body.obj[f])
        ELSE None ]

\* A struct ErrorResponse whose display_message is not an Option.
ErrorResponseRequiredMessage ==
    [ display_message |-> TString,
      documentation_url |-> TOptString,
      error_code |-> TOptString,
      error_message |-> TOptString,
      error_type |-> TOptErrorType,
      request_id |-> TOptString,
      status |-> TOptU32,
      suggested_action |-> TOptString ]

\* struct ErrorResponse
ErrorResponse ==
    [ display_message |-> TOptString,
      documentation_url |-> TOptString,
      error_code |-> TOptString,
      error_message |-> TOptString,
      error_type |-> TOptErrorType,
      request_id |-> TOptString,
      status |-> TOptU32,
      suggested_action |-> TOptString ]

\* struct CreateLinkTokenResponse
CreateLinkTokenResponse ==
    [ link_token |-> TString, expiration |-> TString, request_id |-> TString ]

\* struct ResetLoginResponse
ResetLoginResponse == [ reset_login |-> TBool ]

-----------------------------------------------------------------------------
(* Endpoints: impl Endpoint for CreateLinkTokenRequest / ResetLoginRequest. *)

\* An endpoint value: which request struct it is, and whether its Serialize
\* implementation succeeds (the request structs are generic over a
\* caller-supplied T: Serialize).
Endpoints ==
    [ name : {"CreateLinkTokenRequest", "ResetLoginRequest"},
      serializable : BOOLEAN ]

\* Endpoint::path
Path(e) ==
    CASE e.name = "CreateLinkTokenRequest" -> <<"/", "link", "/", "token", "/", "create">>
      [] e.name = "ResetLoginRequest" -> <<"/", "sandbox", "/", "item", "/", "reset_login">>
      [] e.name = "GetTransactionsRequest" -> <<"/", "transactions", "/", "get">>

\* Endpoint::Response
ResponseShape(e) ==
    CASE e.name = "CreateLinkTokenRequest" -> CreateLinkTokenResponse
      [] e.name = "ResetLoginRequest" -> ResetLoginResponse


\* Members the server may send: those of the structs above.
Keys == DOMAIN ErrorResponse \cup DOMAIN CreateLinkTokenResponse \cup DOMAIN ResetLoginResponse

\* Values the server may send for member k: of the type the client declares
\* for it, of another type, or null.
Candidates(k) ==
    CASE k = "reset_login" -> {JBool(TRUE), JBool(FALSE), JNull}
      [] k = "status" -> {JNum(400), JNum(-1), JStr("a"), JNull}
      [] k = "error_type" -> {JStr("INVALID_REQUEST"), JStr("a"), JNull}
      [] OTHER -> {JStr("a"), JNum(400), JNull}

JsonValues == UNION {Candidates(k) : k \in Keys}

Bodies ==
    {Malformed} \cup
    { Object(o) : o \in UNION { { f \in [K -> JsonValues] : \A k \in K : f[k] \in Candidates(k) } :
                                K \in {K \in SUBSET Keys : Cardinality(K) <= MaxMembers} } }

\* Status codes the transport may return: 200, another 2xx, a non-2xx.
StatusCodes == {200, 201, 400}

\* StatusCode::is_success
is_success(status) == status >= 200 /\ status <= 299

-----------------------------------------------------------------------------
(* Requests of the http_client transport.                                  *)

NoRequest == [method |-> "", url |-> <<>>, headers |-> <<>>, body |-> ""]
NoResponse == [status |-> 0, body |-> Malformed]

\* http_client::Request::post
Post(url) == [method |-> "POST", url |-> url, headers |-> <<>>, body |-> ""]

\* Request::insert_header: replaces the values of the header.
insert_header(req, name, value) ==
    [req EXCEPT !.headers = (name :> value) @@ @]

\* Request::set_body with a Body::from_json: the body brings its MIME type.
set_body(req, body) ==
    insert_header([req EXCEPT !.body = body], "Content-Type", "application/json")

\* Endpoint::payload before its unwrap: Body::from_json(&self).
payload(e) == [ok |-> e.serializable, body |-> e.name]

\* A request builder that joins domain and path with a separator.
request_with_separator(e, domain) ==
    set_body(Post(domain \o <<"/">> \o Path(e)), payload(e).body)

\* Endpoint::request
request(e, domain) ==
    set_body(Post(domain \o Path(e)), payload(e).body)

\* Header insertion that sends the client id as the secret.
authenticate_with_id_as_secret(req, creds) ==
    insert_header(insert_header(insert_header(req,
        "Content-Type", "application/json"),
        "PLAID-CLIENT-ID", creds.client_id),
        "PLAID-SECRET", creds.client_id)

\* Plaid::request, the three insert_header calls.
authenticate(req, creds) ==
    insert_header(insert_header(insert_header(req,
        "Content-Type", "application/json"),
        "PLAID-CLIENT-ID", creds.client_id),
        "PLAID-SECRET", creds.secret)

-----------------------------------------------------------------------------
(* Outcomes of a call of Plaid::request.                                   *)

NoOutcome == [kind |-> "None", value |-> <<>>]
\* Ok(E::Response)
Success(v) == [kind |-> "Ok", value |-> v]
\* ClientError::App
App(v) == [kind |-> "App", value |-> v]
\* ClientError::Http, from the transport's send or from Response::body_json
Http(cause) == [kind |-> "Http", value |-> cause]
\* ClientError::Parse
Parse(cause) == [kind |-> "Parse", value |-> cause]
\* The call did not return: a panic unwound through it.
Panic(cause) == [kind |-> "Panic", value |-> cause]

\* Response::body_json::<T>() followed by `?` in a function returning
\* Result<_, ClientError>: body_json's error type is http_client::Error, which
\* `?` converts with impl From<HttpError> for ClientError.
body_json(body, shape) ==
    IF Parses(body, shape)
    THEN [ok |-> TRUE, value |-> Deserialize(body, shape)]
    ELSE [ok |-> FALSE, value |-> Http("body_json")]

\* Plaid::request, the match on res.status().
interpret(e, res) ==
    IF res.status = 200
    THEN LET r == body_json(res.body, ResponseShape(e))
         IN  IF r.ok THEN Success(r.value) ELSE r.value
    ELSE LET r == body_json(res.body, ErrorResponse)
         IN  IF r.ok THEN App(r.value) ELSE r.value

\* A dispatcher that sends again when the transport fails.
send_failed_retry(n) == [pc |-> "awaiting", sends |-> n + 1, outcome |-> NoOutcome]

\* Plaid::request, `self.http.send(post).await?` with send returning Err.
send_failed(n) == [pc |-> "done", sends |-> n, outcome |-> Http("send")]

-----------------------------------------------------------------------------
(* api.rs: the sans-IO request builder.                                    *)

HEADER_CLIENT_ID == "PLAID-CLIENT-ID"
HEADER_CLIENT_SECRET == "PLAID-SECRET"

\* Lexemes that end the authority component of a URI.
AuthorityEnd == {"://", "/", "?", "#"}

\* Uri::builder().authority(s): the authority parser stops at the first
\* '/', '?' or '#'; the string is an authority only if nothing is left over
\* and it is not empty.
authority_valid(s) ==
    /\ s # <<>>
    /\ \A i \in 1..Len(s) : s[i] \notin AuthorityEnd

NoUri == [scheme |-> "", authority |-> <<>>, path |-> <<>>]
NoApiRequest == [method |-> "", uri |-> NoUri, headers |-> <<>>, body |-> ""]

\* The value of api::request (ClientRequestResult).
ApiOk(req) == [called |-> TRUE, ok |-> TRUE, request |-> req, err |-> ""]
ApiErr(e) == [called |-> TRUE, ok |-> FALSE, request |-> NoApiRequest, err |-> e]
NoApiResult == [called |-> FALSE, ok |-> FALSE, request |-> NoApiRequest, err |-> ""]

\* api::request
api_request(cfg, e) ==
    IF ~authority_valid(to_string(cfg.environment))
    THEN ApiErr("InvalidUri")
    ELSE IF ~e.serializable
    THEN ApiErr("Parse")
    ELSE ApiOk([ method |-> "POST",
                 uri |-> [ scheme |-> "https",
                           authority |-> to_string(cfg.environment),
                           path |-> Path(e) ],
                 headers |-> ("Content-Type" :> "application/json")
                             @@ (HEADER_CLIENT_SECRET :> cfg.credentials.secret)
                             @@ (HEADER_CLIENT_ID :> cfg.credentials.client_id),
                 body |-> e.name ])

-----------------------------------------------------------------------------
(* The state machine.                                                      *)

\* No reset_login, response interpretation or round trip has happened.
OpsInit ==
    /\ resetLogin = NoOutcome
    /\ apiResponse = NoResponse
    /\ apiInterpreted = NoOutcome
    /\ codec = [shape |-> "", value |-> <<>>, wire |-> Malformed,
                back |-> [ok |-> FALSE, value |-> <<>>]]

\* The consumers of transactions_iter.
Streams == {"a", "b"}

\* A stream that transactions_iter has not made.
NoStream ==
    [ phase |-> "absent", request |-> <<>>, count |-> 0, offset |-> 0,
      yielded |-> 0, total_xacts |-> <<>>, pulls |-> 0, pages |-> <<>>,
      results |-> <<>>, out |-> <<>>, post |-> NoRequest ]

\* transactions_iter has not been called.
StreamsIdle ==
    /\ baseReq = [ access_token |-> "access-token", start_date |-> "2019-09-01",
                   end_date |-> "2019-09-05", options |-> <<>> ]
    /\ server = [N |-> 0, faithful |-> TRUE]
    /\ iters = [i \in Streams |-> NoStream]

\* Builder::new
NewBuilder == [http |-> None, credentials |-> None, env |-> None]

\* No client has been built.
NoPlaid ==
    [ made |-> FALSE, http |-> "",
      credentials |-> [client_id |-> "", secret |-> ""], env |-> Sandbox ]

\* A Builder nothing was called on.
BuilderIdle ==
    /\ builder = NewBuilder
    /\ calls = <<>>
    /\ built = NoPlaid

\* Nothing outside the dispatcher has happened.
ExtInit == OpsInit /\ StreamsIdle /\ BuilderIdle

Init ==
    /\ ExtInit
    /\ env \in Environment
    /\ credentials \in Credentials
    /\ pc = "idle"
    /\ endpoint = [name |-> "CreateLinkTokenRequest", serializable |-> TRUE]
    /\ post = NoRequest
    /\ sends = 0
    /\ response = NoResponse
    /\ outcome = NoOutcome
    /\ apiResult = NoApiResult

\* Plaid::request up to the call of send: the request is built
\* (Endpoint::request unwraps the payload and panics when the request value
\* does not serialize), the headers are set and send is invoked.
Dispatch(e) ==
    /\ endpoint' = e
    /\ IF payload(e).ok
       THEN /\ post' = authenticate(request(e, to_string(env)), credentials)
            /\ sends' = sends + 1
            /\ pc' = "awaiting"
            /\ outcome' = NoOutcome
       ELSE /\ post' = NoRequest
            /\ sends' = sends
            /\ pc' = "done"
            /\ outcome' = Panic("Endpoint::payload unwrap")
    /\ UNCHANGED <<env, credentials, response, apiResult>>

\* A call of Plaid::request for any endpoint.
Request ==
    /\ pc = "idle"
    /\ \E e \in Endpoints : Dispatch(e)
    /\ UNCHANGED extVars

\* The transport's send returns Err.
SendFails ==
    /\ pc = "awaiting"
    /\ pc' = send_failed(sends).pc
    /\ sends' = send_failed(sends).sends
    /\ outcome' = send_failed(sends).outcome
    /\ UNCHANGED <<env, credentials, endpoint, post, response, apiResult, extVars>>

\* The transport's send returns a response, which Plaid::request interprets.
SendReturns ==
    /\ pc = "awaiting"
    /\ \E status \in StatusCodes, body \in Bodies :
         /\ response' = [status |-> status, body |-> body]
         /\ outcome' = interpret(endpoint, response')
    /\ pc' = "done"
    /\ UNCHANGED <<env, credentials, endpoint, post, sends, apiResult, extVars>>

\* api::create_link_token
CreateLinkToken ==
    /\ pc = "idle"
    /\ \E serializable \in BOOLEAN :
         /\ endpoint' = [name |-> "CreateLinkTokenRequest", serializable |-> serializable]
         /\ apiResult' = api_request([credentials |-> credentials, environment |-> env],
                                     endpoint')
    /\ pc' = "done"
    /\ UNCHANGED <<env, credentials, post, sends, response, outcome, extVars>>

\* The caller takes the result; the next call starts from scratch.
Return ==
    /\ pc = "done"
    /\ pc' = "idle"
    /\ post' = NoRequest
    /\ sends' = 0
    /\ response' = NoResponse
    /\ outcome' = NoOutcome
    /\ apiResult' = NoApiResult
    /\ UNCHANGED <<env, credentials, endpoint, extVars>>

Next ==
    \/ Request
    \/ SendFails
    \/ SendReturns
    \/ CreateLinkToken
    \/ Return

Spec == Init /\ [][Next]_vars

-----------------------------------------------------------------------------
(* Plaid::reset_login: a dispatch of ResetLoginRequest and a match on the  *)
(* reset_login member of its response.                                     *)

\* The value ().
Unit == <<>>

\* ErrorResponse::default()
DefaultErrorResponse == [f \in DOMAIN ErrorResponse |-> None]

\* A reset_login that does not look at the reset_login member.
reset_login_unchecked(o) ==
    IF o.kind = "Ok" THEN Success(Unit) ELSE o

\* Plaid::reset_login, given how its call of Plaid::request ended: `?` hands
\* an error on as it is, a panic unwinds through the caller.
reset_login(o) ==
    IF o.kind = "Ok"
    THEN IF o.value["reset_login"]
         THEN Success(Unit)
         ELSE App([DefaultErrorResponse EXCEPT
                      !["error_message"] = Some("failed to reset login")])
    ELSE o

\* One client, as Builder::new().with_credentials(..).build() makes it.
OneClientInit ==
    /\ env = Sandbox
    /\ credentials = [client_id |-> "fake-client-id", secret |-> "client-secret"]
    /\ pc = "idle"
    /\ endpoint = [name |-> "ResetLoginRequest", serializable |-> TRUE]
    /\ post = NoRequest
    /\ sends = 0
    /\ response = NoResponse
    /\ outcome = NoOutcome
    /\ apiResult = NoApiResult

\* Plaid::reset_login up to the call of send.
ResetLogin ==
    /\ pc = "idle"
    /\ \E serializable \in BOOLEAN :
         Dispatch([name |-> "ResetLoginRequest", serializable |-> serializable])
    /\ UNCHANGED extVars

\* Plaid::reset_login after its call of Plaid::request has ended.
ResetLoginReturns ==
    /\ pc = "done"
    /\ resetLogin' = reset_login(outcome)
    /\ pc' = "returned"
    /\ UNCHANGED <<env, credentials, endpoint, post, sends, response, outcome, apiResult,
                   apiResponse, apiInterpreted, codec,
                   streamVars, builderVars>>

\* The caller takes the result of reset_login.
ResetLoginTaken ==
    /\ pc = "returned"
    /\ pc' = "idle"
    /\ post' = NoRequest
    /\ sends' = 0
    /\ response' = NoResponse
    /\ outcome' = NoOutcome
    /\ resetLogin' = NoOutcome
    /\ UNCHANGED <<env, credentials, endpoint, apiResult, apiResponse, apiInterpreted, codec,
                   streamVars, builderVars>>

ResetLoginInit == ExtInit /\ OneClientInit

ResetLoginNext ==
    \/ ResetLogin
    \/ SendFails
    \/ SendReturns
    \/ ResetLoginReturns
    \/ ResetLoginTaken

SpecResetLogin == ResetLoginInit /\ [][ResetLoginNext]_vars

-----------------------------------------------------------------------------
(* The serde_json codec: api::create_link_token_response and the derived   *)
(* Serialize implementations of the response structs.                      *)

\* Err(ErrorResponse) of api::create_link_token_response
Err(v) == [kind |-> "Err", value |-> v]

\* serde_json::from_slice::<T>
from_slice(body, shape) ==
    IF Parses(body, shape)
    THEN [ok |-> TRUE, value |-> Deserialize(body, shape)]
    ELSE [ok |-> FALSE, value |-> <<>>]

\* api::create_link_token_response: both branches unwrap the Result of
\* serde_json::from_slice.
create_link_token_response(res) ==
    IF is_success(res.status)
    THEN LET r == from_slice(res.body, CreateLinkTokenResponse)
         IN  IF r.ok THEN Success(r.value) ELSE Panic("Result::unwrap")
    ELSE LET r == from_slice(res.body, ErrorResponse)
         IN  IF r.ok THEN Err(r.value) ELSE Panic("Result::unwrap")

\* The structs that derive both Serialize and Deserialize, by name.
Shapes ==
    [ ErrorResponse |-> ErrorResponse,
      CreateLinkTokenResponse |-> CreateLinkTokenResponse,
      ResetLoginResponse |-> ResetLoginResponse ]

OptStrings == {None, Some("a")}

\* Values of struct ErrorResponse.
ErrorResponseValues ==
    [ display_message : OptStrings,
      documentation_url : OptStrings,
      error_code : OptStrings,
      error_message : OptStrings,
      error_type : {None} \cup {Some(ErrorTypeNames[n]) : n \in DOMAIN ErrorTypeNames},
      request_id : OptStrings,
      status : {None, Some(0), Some(400)},
      suggested_action : OptStrings ]

\* Values of struct CreateLinkTokenResponse.
CreateLinkTokenResponseValues ==
    [ link_token : {"a", "b"}, expiration : {"a", "b"}, request_id : {"a", "b"} ]

\* Values of struct ResetLoginResponse.
ResetLoginResponseValues == [ reset_login : BOOLEAN ]

Values(name) ==
    CASE name = "ErrorResponse" -> ErrorResponseValues
      [] name = "CreateLinkTokenResponse" -> CreateLinkTokenResponseValues
      [] name = "ResetLoginResponse" -> ResetLoginResponseValues

\* A Serialize of ErrorType that writes the variant's Rust identifier.
Encode_variant_identifier(ty, x) ==
    CASE ty = "String" -> JStr(x)
      [] ty = "bool" -> JBool(x)
      [] ty = "u32" -> JNum(x)
      [] ty = "ErrorType" -> JStr(x)

\* The JSON value the derived Serialize writes for a Rust value of type ty;
\* ErrorType is written under its SCREAMING_SNAKE_CASE name.
Encode(ty, x) ==
    CASE ty = "String" -> JStr(x)
      [] ty = "bool" -> JBool(x)
      [] ty = "u32" -> JNum(x)
      [] ty = "ErrorType" ->
            JStr(CHOOSE n \in DOMAIN ErrorTypeNames : ErrorTypeNames[n] = x)

\* serde_json::to_string of a struct value: every field is written (none of
\* these structs has skip_serializing_if), None as null.
Serialize(v, shape) ==
    Object([ f \in DOMAIN shape |->
               IF shape[f].opt
               THEN IF v[f] = None THEN JNull ELSE Encode(shape[f].ty, v[f][1])
               ELSE Encode(shape[f].ty, v[f]) ])

\* The caller hands a response to api::create_link_token_response.
InterpretResponse ==
    /\ pc = "idle"
    /\ \E status \in StatusCodes, body \in Bodies :
         /\ apiResponse' = [status |-> status, body |-> body]
         /\ apiInterpreted' = create_link_token_response(apiResponse')
    /\ pc' = "returned"
    /\ UNCHANGED <<env, credentials, endpoint, post, sends, response, outcome, apiResult,
                   resetLogin, codec, streamVars, builderVars>>

\* A value is serialized and the text is parsed back as the same struct.
RoundTrip ==
    /\ pc = "idle"
    /\ \E name \in DOMAIN Shapes :
         \E v \in Values(name) :
            LET wire == Serialize(v, Shapes[name])
            IN  codec' = [shape |-> name, value |-> v, wire |-> wire,
                          back |-> from_slice(wire, Shapes[name])]
    /\ pc' = "decoded"
    /\ UNCHANGED <<env, credentials, endpoint, post, sends, response, outcome, apiResult,
                   resetLogin, apiResponse, apiInterpreted,
                   streamVars, builderVars>>

\* The caller takes the result and drops the values.
CodecTaken ==
    /\ pc \in {"returned", "decoded"}
    /\ pc' = "idle"
    /\ apiResponse' = NoResponse
    /\ apiInterpreted' = NoOutcome
    /\ codec' = [shape |-> "", value |-> <<>>, wire |-> Malformed,
                 back |-> [ok |-> FALSE, value |-> <<>>]]
    /\ UNCHANGED <<env, credentials, endpoint, post, sends, response, outcome, apiResult,
                   resetLogin, streamVars, builderVars>>

CodecInit == ExtInit /\ OneClientInit

CodecNext ==
    \/ InterpretResponse
    \/ RoundTrip
    \/ CodecTaken

SpecCodec == CodecInit /\ [][CodecNext]_vars

-----------------------------------------------------------------------------
(* Plaid::transactions_iter: the pagination stream.  The body of the       *)
(* try_stream! block is a generator: it runs only while the consumer polls *)
(* the stream and suspends at `.await` and at `yield`.                     *)

\* The default page size and first offset of transactions_iter.
DefaultCount == 100
DefaultOffset == 0

\* usize arithmetic wraps modulo 2^64 in a build without overflow checks.
\* The model's word is 16 bits wide: wider than every value a bounded run
\* computes, so that only a subtraction below zero wraps.
UsizeModulus == 2^16

\* Option::unwrap_or
unwrap_or(opt, default) == IF opt = None THEN default ELSE opt[1]

\* Values of struct GetTransactionsOptions.
GetTransactionsOptions ==
    [ account_ids : {None, Some("account-id")},
      count : {None} \cup {Some(c) : c \in 0..MaxCount},
      offset : {None} \cup {Some(o) : o \in 0..MaxOffset},
      include_original_description : {None, Some("true")} ]

\* Values of struct GetTransactionsRequest.
GetTransactionsRequest ==
    [ access_token : {"access-token"},
      start_date : {"2019-09-01"},
      end_date : {"2019-09-05"},
      options : {None} \cup {Some(o) : o \in GetTransactionsOptions} ]

\* A loop body that makes new options for every page request.
with_paging_fresh_options(r, count, offset) ==
    [r EXCEPT !.options =
        Some([ account_ids |-> None, count |-> Some(count),
               offset |-> Some(offset),
               include_original_description |-> None ])]

\* The if-let on request.options at the head of the loop body: the paging
\* members of existing options are overwritten, missing options are made.
with_paging(r, count, offset) ==
    IF r.options # None
    THEN [r EXCEPT !.options =
             Some([@[1] EXCEPT !.count = Some(count), !.offset = Some(offset)])]
    ELSE [r EXCEPT !.options =
             Some([ account_ids |-> None, count |-> Some(count),
                    offset |-> Some(offset),
                    include_original_description |-> None ])]

\* The transactions at positions o .. min(o + c, n) - 1 of a list of n
\* transactions; a transaction is named by its position.
Page(n, c, o) ==
    LET len == IF o >= n THEN 0 ELSE IF o + c <= n THEN c ELSE n - o
    IN  [k \in 1..len |-> o + k - 1]

\* struct GetTransactionsResponse of a server whose list has n transactions.
GetTransactionsResponse(n, r) ==
    LET opts == r.options[1]
    IN  [ transactions |-> Page(n, opts.count[1], opts.offset[1]),
          total_transactions |-> n ]

\* Elements of the stream, as the consumer's next() returns them.
Batch(xs) == [kind |-> "Batch", items |-> xs, err |-> NoOutcome]
Failed(e) == [kind |-> "Err", items |-> <<>>, err |-> e]
End == [kind |-> "End", items |-> <<>>, err |-> NoOutcome]

\* Errors a call of Plaid::transactions returns.
DispatchErrors == {Http("send"), App(DefaultErrorResponse)}

\* The POST that Plaid::transactions sends for a page.
transactions(self, r) ==
    authenticate(request([name |-> "GetTransactionsRequest", serializable |-> TRUE],
                         to_string(self.env)),
                 self.credentials)

\* The generator from the head of the while loop to its next suspension:
\* either the call of self.transactions is pending, or the loop is left and
\* the stream ends.
resume(self, s) ==
    IF s.total_xacts = None \/ s.total_xacts[1] > s.yielded
    THEN LET r == with_paging(s.request, s.count, s.offset)
         IN  [s EXCEPT !.phase = "awaiting",
                       !.request = r,
                       !.pages = Append(@, r),
                       !.post = transactions(self, r)]
    ELSE [s EXCEPT !.phase = "done", !.out = Append(@, End)]

\* A first poll that takes up the cursor of the stream that is furthest on.
first_poll_shared_cursor(self, base, s) ==
    LET far == CHOOSE j \in Streams : \A k \in Streams : iters[j].offset >= iters[k].offset
    IN  IF base.options = None
        THEN [s EXCEPT !.phase = "panicked"]
        ELSE resume(self, [s EXCEPT !.yielded = iters[far].yielded,
                                    !.total_xacts = iters[far].total_xacts,
                                    !.request = base,
                                    !.count = unwrap_or(base.options[1].count, DefaultCount),
                                    !.offset = IF iters[far].pulls = 0
                                               THEN unwrap_or(base.options[1].offset, DefaultOffset)
                                               ELSE iters[far].offset])

\* The first poll: the statements before the loop, then the loop.  Both
\* req.options.as_ref().unwrap() panic when the base request has no options.
first_poll(self, base, s) ==
    IF base.options = None
    THEN [s EXCEPT !.phase = "panicked"]
    ELSE resume(self, [s EXCEPT !.yielded = 0,
                                !.total_xacts = None,
                                !.request = base,
                                !.count = unwrap_or(base.options[1].count, DefaultCount),
                                !.offset = unwrap_or(base.options[1].offset, DefaultOffset)])

\* A stream that runs its body again when it is polled after its end.
poll_restarting(self, base, s) ==
    CASE s.phase = "created" -> first_poll(self, base, s)
      [] s.phase = "suspended" -> resume(self, s)
      [] s.phase = "failed" -> [s EXCEPT !.phase = "done", !.out = Append(@, End)]
      [] s.phase = "done" -> first_poll(self, base, s)

\* One poll of the stream by the consumer's next().  After `?` has yielded
\* an error the generator returns, and a finished stream keeps answering
\* None.
poll(self, base, s) ==
    CASE s.phase = "created" -> first_poll(self, base, s)
      [] s.phase = "suspended" -> resume(self, s)
      [] s.phase = "failed" -> [s EXCEPT !.phase = "done", !.out = Append(@, End)]
      [] s.phase = "done" -> [s EXCEPT !.out = Append(@, End)]

\* A cursor whose offset moves on by the size of the batch.
advance_by_batch(s, res, target) ==
    [s EXCEPT !.results = Append(@, Success(res)),
              !.total_xacts = target,
              !.yielded = @ + Len(res.transactions),
              !.offset = @ + Len(res.transactions),
              !.phase = "suspended",
              !.out = Append(@, Batch(res.transactions)),
              !.post = NoRequest]

\* A cursor that, once its batch is handed out, sends the next page request
\* without waiting for the consumer.
advance_and_prefetch(s, res, target) ==
    LET u == [s EXCEPT !.results = Append(@, Success(res)),
                       !.total_xacts = target,
                       !.yielded = @ + Len(res.transactions),
                       !.offset = @ + s.yielded + Len(res.transactions),
                       !.out = Append(@, Batch(res.transactions))]
        r == with_paging(u.request, u.count, u.offset)
    IN  [u EXCEPT !.phase = "awaiting", !.request = r, !.pages = Append(@, r)]

\* The loop body after self.transactions returned Ok(res), with the target
\* the stream holds from then on, up to the yield.
advance(s, res, target) ==
    [s EXCEPT !.results = Append(@, Success(res)),
              !.total_xacts = target,
              !.yielded = @ + Len(res.transactions),
              !.offset = @ + s.yielded + Len(res.transactions),
              !.phase = "suspended",
              !.out = Append(@, Batch(res.transactions)),
              !.post = NoRequest]

\* The values `total_xacts` can take after the first statement past the
\* await; None stands for the panic of a subtraction with overflow checks.
Targets(s, res) ==
    IF s.total_xacts # None
    THEN {Some(s.total_xacts[1])}
    ELSE IF res.total_transactions >= s.offset
         THEN {Some(res.total_transactions - s.offset)}
         ELSE {None, Some(res.total_transactions - s.offset + UsizeModulus)}

\* The first statement past the await panicked: nothing is yielded.
abort(s, res) ==
    [s EXCEPT !.results = Append(@, Success(res)), !.phase = "panicked",
              !.post = NoRequest]

\* A `?` that drops the error and lets the loop go on.
fail_and_continue(s, e) ==
    [s EXCEPT !.results = Append(@, e), !.phase = "suspended", !.post = NoRequest]

\* self.transactions returned Err(e): `?` yields Err(e); the generator
\* returns when it is polled again.
fail(s, e) ==
    [s EXCEPT !.results = Append(@, e), !.phase = "failed",
              !.out = Append(@, Failed(e)), !.post = NoRequest]

\* A transactions_iter that sends the first page request when it is called.
transactions_iter_eager(self, base, s) ==
    first_poll(self, base, [s EXCEPT !.phase = "created"])

\* transactions_iter: try_stream! makes the stream; its body has not run.
transactions_iter(self, base, s) ==
    [s EXCEPT !.phase = "created"]

\* A client whose streams send to the default environment.
Self_default_environment == [env |-> Sandbox, credentials |-> credentials]

\* The client the streams borrow.
Self == [env |-> env, credentials |-> credentials]

\* A call of transactions_iter: the stream is made, nothing runs.
TransactionsIter(i) ==
    /\ iters[i].phase = "absent"
    /\ iters' = [iters EXCEPT ![i] = transactions_iter(Self, baseReq, @)]
    /\ UNCHANGED <<env, credentials, pc, endpoint, post, sends, response, outcome,
                   apiResult, opsVars, builderVars, baseReq, server>>

\* The consumer asks stream i for its next element.
Pull(i) ==
    /\ iters[i].phase \in {"created", "suspended", "failed", "done"}
    /\ iters[i].pulls < MaxPulls
    /\ iters' = [iters EXCEPT ![i] = poll(Self, baseReq, [@ EXCEPT !.pulls = @ + 1])]
    /\ UNCHANGED <<env, credentials, pc, endpoint, post, sends, response, outcome,
                   apiResult, opsVars, builderVars, baseReq, server>>

\* The pending call of self.transactions of stream i returns Ok: the server
\* answered from a list of n transactions.
PageReturns(i, n) ==
    /\ iters[i].phase = "awaiting"
    /\ LET s == iters[i]
           res == GetTransactionsResponse(n, s.request)
       IN  \E target \in Targets(s, res) :
              iters' = [iters EXCEPT ![i] =
                           IF target = None
                           THEN abort(s, res)
                           ELSE advance(s, res, target)]
    /\ server' = [server EXCEPT !.faithful = @ /\ n = server.N]
    /\ UNCHANGED <<env, credentials, pc, endpoint, post, sends, response, outcome,
                   apiResult, opsVars, builderVars, baseReq>>

\* The pending call of self.transactions of stream i returns Err: `?` yields
\* the error.
PageFails(i, e) ==
    /\ iters[i].phase = "awaiting"
    /\ iters' = [iters EXCEPT ![i] = fail(@, e)]
    /\ server' = [server EXCEPT !.faithful = FALSE]
    /\ UNCHANGED <<env, credentials, pc, endpoint, post, sends, response, outcome,
                   apiResult, opsVars, builderVars, baseReq>>

\* One client, a base request and a server holding some list.
StreamInit ==
    /\ OpsInit
    /\ BuilderIdle
    /\ OneClientInit
    /\ baseReq \in GetTransactionsRequest
    /\ server \in [N : 0..MaxN, faithful : {TRUE}]
    /\ iters = [i \in Streams |-> NoStream]

\* The lengths the server's list can have when a page request arrives: the
\* length it started with, or emptied, or grown to the longest.
ListLengths == {server.N, 0, MaxN}

\* One consumer; the server's list may change between page requests and the
\* dispatch may fail.
StreamNext ==
    \/ TransactionsIter("a")
    \/ Pull("a")
    \/ \E n \in ListLengths : PageReturns("a", n)
    \/ \E e \in DispatchErrors : PageFails("a", e)

SpecStream == StreamInit /\ [][StreamNext]_vars

\* The base requests that filter by neither account nor description.
UnfilteredRequests ==
    { r \in GetTransactionsRequest :
         r.options # None =>
            /\ r.options[1].account_ids = None
            /\ r.options[1].include_original_description = None }

\* A sandbox or production client, an unfiltered base request and a server
\* holding a list.
StreamsInit ==
    /\ OpsInit
    /\ BuilderIdle
    /\ env \in {Sandbox, Production}
    /\ credentials = [client_id |-> "fake-client-id", secret |-> "client-secret"]
    /\ pc = "idle"
    /\ endpoint = [name |-> "ResetLoginRequest", serializable |-> TRUE]
    /\ post = NoRequest
    /\ sends = 0
    /\ response = NoResponse
    /\ outcome = NoOutcome
    /\ apiResult = NoApiResult
    /\ baseReq \in UnfilteredRequests
    /\ server \in [N : 0..MaxN, faithful : {TRUE}]
    /\ iters = [i \in Streams |-> NoStream]

\* Two consumers, each with a stream made from the same base request on the
\* same client, polled in any interleaving; the server answers from its list
\* and the dispatch may fail.
StreamsNext ==
    \E i \in Streams :
        \/ TransactionsIter(i)
        \/ Pull(i)
        \/ PageReturns(i, server.N)
        \/ \E e \in DispatchErrors : PageFails(i, e)

SpecStreams == StreamsInit /\ [][StreamsNext]_vars

-----------------------------------------------------------------------------
(* Builder: with_http_client, with_credentials, with_env and build.        *)

\* The transports: H1Client::new() and clients a caller brings.
H1Client == "H1Client"
HttpClients == {"client-a", "client-b"}

\* Credentials::default() (derive Default) and Environment::default()
DefaultCredentials == [client_id |-> "", secret |-> ""]
DefaultEnvironment == Sandbox

\* Option::unwrap_or_default / unwrap_or_else
unwrap_or_else(opt, default) == IF opt = None THEN default ELSE opt[1]

\* Builder::with_http_client
with_http_client(b, client) == [b EXCEPT !.http = Some(client)]

\* Builder::with_credentials
with_credentials(b, creds) == [b EXCEPT !.credentials = Some(creds)]

\* A with_env that drops the credentials set so far.
with_env_dropping_credentials(b, e) ==
    [b EXCEPT !.env = Some(e), !.credentials = None]

\* Builder::with_env
with_env(b, e) == [b EXCEPT !.env = Some(e)]

\* Builder::build
build(b) ==
    [ made |-> TRUE,
      http |-> unwrap_or_else(b.http, H1Client),
      credentials |-> unwrap_or_else(b.credentials, DefaultCredentials),
      env |-> unwrap_or_else(b.env, DefaultEnvironment) ]

\* A with_* call, as the caller wrote it.
Call(field, value) == [field |-> field, value |-> value]

\* The caller may still call a with_* method on the Builder.
Building == ~built.made /\ Len(calls) < MaxCalls

WithHttpClient ==
    /\ Building
    /\ \E client \in HttpClients :
         /\ builder' = with_http_client(builder, client)
         /\ calls' = Append(calls, Call("http", client))
    /\ UNCHANGED <<env, credentials, pc, endpoint, post, sends, response, outcome,
                   apiResult, opsVars, streamVars, built>>

WithCredentials ==
    /\ Building
    /\ \E creds \in Credentials :
         /\ builder' = with_credentials(builder, creds)
         /\ calls' = Append(calls, Call("credentials", creds))
    /\ UNCHANGED <<env, credentials, pc, endpoint, post, sends, response, outcome,
                   apiResult, opsVars, streamVars, built>>

WithEnv ==
    /\ Building
    /\ \E e \in Environment :
         /\ builder' = with_env(builder, e)
         /\ calls' = Append(calls, Call("env", e))
    /\ UNCHANGED <<env, credentials, pc, endpoint, post, sends, response, outcome,
                   apiResult, opsVars, streamVars, built>>

\* Builder::build consumes the Builder.
Build ==
    /\ ~built.made
    /\ built' = build(builder)
    /\ UNCHANGED <<env, credentials, pc, endpoint, post, sends, response, outcome,
                   apiResult, opsVars, streamVars, builder, calls>>

\* The caller starts over with Builder::new().
BuilderNew ==
    /\ built.made
    /\ builder' = NewBuilder
    /\ calls' = <<>>
    /\ built' = NoPlaid
    /\ UNCHANGED <<env, credentials, pc, endpoint, post, sends, response, outcome,
                   apiResult, opsVars, streamVars>>

BuilderInit == OpsInit /\ StreamsIdle /\ BuilderIdle /\ OneClientInit

BuilderNext ==
    \/ WithHttpClient
    \/ WithCredentials
    \/ WithEnv
    \/ Build
    \/ BuilderNew

SpecBuilder == BuilderInit /\ [][BuilderNext]_vars

-----------------------------------------------------------------------------
(* Properties of the dispatcher.                                           *)

\* A call of Plaid::request has ended.
RequestDone == pc = "done" /\ ~apiResult.called

\* A call of Plaid::request has ended after the transport returned a response.
Responded == RequestDone /\ response # NoResponse

StringFields ==
    { "display_message", "documentation_url", "error_code", "error_message",
      "request_id", "suggested_action" }

\* Member f is in the body with a value other than null.
Present(body, f) == f \in DOMAIN body.obj /\ body.obj[f].t # "null"

\* The body is a JSON object in which every ErrorResponse member that is
\* present is a string (one of the twelve type names for error_type) or,
\* for status, a non-negative number.
WellFormedError(body) ==
    /\ body.json
    /\ \A f \in StringFields : Present(body, f) => body.obj[f].t = "str"
    /\ Present(body, "status") => body.obj["status"].t = "num" /\ body.obj["status"].n >= 0
    /\ Present(body, "error_type") =>
          /\ body.obj["error_type"].t = "str"
          /\ body.obj["error_type"].s \in
                { "INVALID_REQUEST", "INVALID_RESULT", "INVALID_INPUT", "INSTITUTION_ERROR",
                  "RATE_LIMIT_EXCEEDED", "API_ERROR", "ITEM_ERROR", "ASSET_REPORT_ERROR",
                  "RECAPTCHA_ERROR", "OAUTH_ERROR", "PAYMENT_ERROR", "BANK_TRANSFER_ERROR" }

\* C1: every call of Plaid::request ends in exactly one of a typed success
\* value, ClientError::App, ClientError::Http or ClientError::Parse; it
\* never ends in none of them.
C1_ExactlyOneOutcome ==
    RequestDone => outcome.kind \in {"Ok", "App", "Http", "Parse"}

\* C2: Plaid::request deserializes the body into the endpoint's response
\* type for every 2xx status and for no other status; a 2xx response with a
\* well-formed body of the declared type is returned as the success value.
C2_SuccessForEvery2xx ==
    Responded =>
        /\ outcome.kind = "Ok" => is_success(response.status)
        /\ is_success(response.status) /\ Parses(response.body, ResponseShape(endpoint))
              => outcome = Success(Deserialize(response.body, ResponseShape(endpoint)))

\* C3: a response with a non-success status and a well-formed ErrorResponse
\* body is returned as ClientError::App carrying an ErrorResponse in which
\* every member present in the body has the value the server sent and every
\* absent member is None.
C3_ErrorResponsePreserved ==
    Responded /\ ~is_success(response.status) /\ WellFormedError(response.body) =>
        /\ outcome.kind = "App"
        /\ DOMAIN outcome.value = StringFields \cup {"status", "error_type"}
        /\ \A f \in StringFields :
              outcome.value[f] =
                 IF Present(response.body, f) THEN Some(response.body.obj[f].s) ELSE None
        /\ outcome.value["status"] =
              IF Present(response.body, "status")
              THEN Some(response.body.obj["status"].n) ELSE None
        /\ ~Present(response.body, "error_type") => outcome.value["error_type"] = None
        /\ Present(response.body, "error_type")
              /\ response.body.obj["error_type"].s = "INVALID_REQUEST"
              => outcome.value["error_type"] = Some("InvalidRequest")

\* An error response with error_type INVALID_REQUEST and some members absent
\* has been returned as ClientError::App.
C3_Witness ==
    /\ Responded
    /\ response.status = 400
    /\ Present(response.body, "error_type")
    /\ Present(response.body, "error_message")
    /\ "status" \notin DOMAIN response.body.obj
    /\ outcome.kind = "App"
    /\ outcome.value["error_type"] = Some("InvalidRequest")
    /\ outcome.value["error_message"] = Some("a")
    /\ outcome.value["status"] = None

\* C4: a response with a non-success status whose body does not deserialize
\* into ErrorResponse is returned as ClientError::Parse.
C4_MalformedErrorIsParse ==
    Responded /\ ~is_success(response.status) /\ ~WellFormedError(response.body) =>
        outcome.kind = "Parse"

\* C5: a response with a success status whose body does not deserialize
\* into the endpoint's response type is returned as ClientError::Parse.
C5_MalformedSuccessIsParse ==
    Responded /\ is_success(response.status)
              /\ ~Parses(response.body, ResponseShape(endpoint)) =>
        outcome.kind = "Parse"

\* C6: a call of Plaid::request never invokes send a second time; a call
\* that reached the transport has invoked it exactly once, and when that
\* send failed the call ended in ClientError::Http from the send, without a
\* response.
C6_SendOnceNoRetry ==
    /\ sends <= 1
    /\ pc = "awaiting" => sends = 1
    /\ RequestDone /\ post # NoRequest => sends = 1
    /\ RequestDone /\ post # NoRequest /\ response = NoResponse => outcome = Http("send")
    /\ outcome = Http("send") => pc = "done" /\ sends = 1 /\ response = NoResponse

\* The transport's send failed and the call has returned ClientError::Http.
C6_Witness ==
    RequestDone /\ outcome = Http("send") /\ sends = 1

\* C7: when the request body does not serialize, the call returns
\* ClientError::Parse and send is never invoked.
C7_SerializationFailureIsParse ==
    RequestDone /\ ~endpoint.serializable => outcome.kind = "Parse" /\ sends = 0

\* C8: every request handed to the transport, and every request the sans-IO
\* builder returns, uses POST and carries Content-Type = application/json,
\* PLAID-CLIENT-ID = credentials.client_id and PLAID-SECRET =
\* credentials.secret.
C8_PostWithCredentialHeaders ==
    /\ post # NoRequest =>
          /\ post.method = "POST"
          /\ {"Content-Type", "PLAID-CLIENT-ID", "PLAID-SECRET"} \subseteq DOMAIN post.headers
          /\ post.headers["Content-Type"] = "application/json"
          /\ post.headers["PLAID-CLIENT-ID"] = credentials.client_id
          /\ post.headers["PLAID-SECRET"] = credentials.secret
    /\ apiResult.ok =>
          /\ apiResult.request.method = "POST"
          /\ {"Content-Type", "PLAID-CLIENT-ID", "PLAID-SECRET"}
                \subseteq DOMAIN apiResult.request.headers
          /\ apiResult.request.headers["Content-Type"] = "application/json"
          /\ apiResult.request.headers["PLAID-CLIENT-ID"] = credentials.client_id
          /\ apiResult.request.headers["PLAID-SECRET"] = credentials.secret

\* A request with distinct client id and secret is with the transport.
C8_Witness ==
    /\ pc = "awaiting"
    /\ post.method = "POST"
    /\ post.headers["PLAID-CLIENT-ID"] = "fake-client-id"
    /\ post.headers["PLAID-SECRET"] = "client-secret"

C10_ApiUriOfEnvironment ==
    apiResult.called /\ endpoint.serializable /\ env.kind # "Custom" =>
        /\ apiResult.ok
        /\ apiResult.request.uri.scheme = "https"
        /\ apiResult.request.uri.path = <<"/", "link", "/", "token", "/", "create">>
        /\ env = Sandbox => apiResult.request.uri.authority = <<"sandbox.plaid.com">>
        /\ env = Development => apiResult.request.uri.authority = <<"development.plaid.com">>
        /\ env = Production => apiResult.request.uri.authority = <<"production.plaid.com">>

-----------------------------------------------------------------------------
(* Properties of Plaid::reset_login.                                       *)

\* C11: reset_login returns Ok(()) exactly when the dispatch succeeded with
\* reset_login = true; when the dispatch succeeded with reset_login = false
\* it returns ClientError::App whose ErrorResponse has error_message =
\* "failed to reset login" and every other member absent; when the dispatch
\* failed it returns the error of the dispatch.
C11_ResetLoginGatedByFlag ==
    pc = "returned" =>
        /\ resetLogin.kind = "Ok" <=>
              /\ outcome.kind = "Ok"
              /\ response.body.obj["reset_login"] = JBool(TRUE)
        /\ outcome.kind = "Ok" /\ response.body.obj["reset_login"] = JBool(FALSE) =>
              /\ resetLogin.kind = "App"
              /\ resetLogin.value["error_message"] = Some("failed to reset login")
              /\ \A f \in (StringFields \cup {"status", "error_type"}) \ {"error_message"} :
                    resetLogin.value[f] = None
        /\ outcome.kind \in {"App", "Http", "Parse"} => resetLogin = outcome

\* The server answered 200 with reset_login = false and reset_login has
\* returned the synthesized application error.
C11_Witness ==
    /\ pc = "returned"
    /\ response.status = 200
    /\ outcome.kind = "Ok"
    /\ response.body.obj["reset_login"] = JBool(FALSE)
    /\ resetLogin.kind = "App"
    /\ resetLogin.value["error_message"] = Some("failed to reset login")

-----------------------------------------------------------------------------
(* Properties of the codec.                                                *)

\* C19: for every status code and every body, api::create_link_token_response
\* returns an Ok or an Err value; it never panics.
C19_InterpretNeverPanics ==
    pc = "returned" => apiInterpreted.kind \in {"Ok", "Err"}

-----------------------------------------------------------------------------
(* Properties of the pagination stream.                                    *)

RECURSIVE BatchTotal(_)
\* The number of transactions in the batches of a sequence of elements.
BatchTotal(out) ==
    IF out = <<>> THEN 0
    ELSE Len(Head(out).items) + BatchTotal(Tail(out))

\* The caller wrote options into the base request.
HasOptions == baseReq.options # None

\* The page size and the first offset the caller asked for.
BaseCount == unwrap_or(baseReq.options[1].count, DefaultCount)
BaseOffset == unwrap_or(baseReq.options[1].offset, DefaultOffset)

\* C12: with a server that answers every page request from one list of N
\* transactions, a stream started with page size c >= 1 and first offset
\* o0 <= N never yields more than N - o0 transactions, ends only after it
\* yielded exactly N - o0 of them, and has ended once the consumer has been
\* answered N - o0 + 2 times (one pull per transaction at most, one for an
\* empty first page, one for the end).
C12_DrainYieldsWindow ==
    LET s == iters["a"]
    IN  ( /\ HasOptions
          /\ server.faithful
          /\ s.phase \in {"suspended", "done"}
          /\ BaseCount >= 1
          /\ BaseOffset <= server.N )
        => /\ BatchTotal(s.out) <= server.N - BaseOffset
           /\ s.phase = "done" => BatchTotal(s.out) = server.N - BaseOffset
           /\ s.pulls >= server.N - BaseOffset + 2 => s.phase = "done"

\* C13: the first pull of a stream made from a base request without options
\* does not abort and sends a page request with count = 100 and offset = 0;
\* with options that lack count or offset, the first page request carries
\* 100 and 0 in their place.
C13_DefaultPaging ==
    \A i \in Streams :
        LET s == iters[i]
        IN  s.pulls >= 1 =>
              /\ s.phase # "panicked" \/ Len(s.pages) >= 1
              /\ Len(s.pages) >= 1
              /\ s.pages[1].options[1].count =
                    Some(IF HasOptions THEN BaseCount ELSE DefaultCount)
              /\ s.pages[1].options[1].offset =
                    Some(IF HasOptions THEN BaseOffset ELSE DefaultOffset)

\* C14: when the dispatch of page k fails, the k-th element of the stream is
\* the Err with that error, the elements before it are batches, every later
\* element is the end of the stream, and page k stays the last request: no
\* batch for page k, no retry, no further page.
C14_FailureEndsStream ==
    \A i \in Streams :
        LET s == iters[i]
        IN  \A k \in 1..Len(s.results) :
                s.results[k].kind # "Ok" =>
                    /\ Len(s.results) = k
                    /\ Len(s.pages) = k
                    /\ Len(s.out) >= k
                    /\ s.out[k] = Failed(s.results[k])
                    /\ \A j \in 1..(k - 1) : s.out[j].kind = "Batch"
                    /\ \A j \in (k + 1)..Len(s.out) : s.out[j] = End
                    /\ s.phase \in {"failed", "done"}

\* The first page failed; the consumer pulled again and got the end.
C14_Witness ==
    LET s == iters["a"]
    IN  /\ Len(s.results) = 1
        /\ s.results[1] = Http("send")
        /\ s.out = <<Failed(Http("send")), End>>
        /\ s.pulls = 2

\* C15: a stream has never sent more page requests than the consumer has
\* asked it for elements, and a page request is only sent in a step in which
\* the consumer asks for one: none when the stream is made, none ahead of the
\* next pull, none after the last pull.
C15_NoRequestWithoutPull ==
    /\ [](\A i \in Streams : Len(iters[i].pages) <= iters[i].pulls)
    /\ [][\A i \in Streams :
             Len(iters[i].pages') # Len(iters[i].pages) =>
                /\ Len(iters[i].pages') = Len(iters[i].pages) + 1
                /\ iters[i].pulls' = iters[i].pulls + 1]_vars

\* Two batches were yielded for two pulls and two page requests.
C15_Witness ==
    LET s == iters["a"]
    IN  /\ s.phase = "suspended"
        /\ s.pulls = 2
        /\ Len(s.pages) = 2
        /\ Len(s.out) = 2

\* C17: after a stream has yielded an error or its end, every pull returns
\* the end of the stream: no batch is yielded and no page request is sent.
C17_EndedStaysEnded ==
    [][\A i \in Streams :
          iters[i].phase \in {"failed", "done"} =>
             /\ iters[i].phase' = "done"
             /\ iters[i].pages' = iters[i].pages
             /\ \/ iters[i].out' = iters[i].out
                \/ iters[i].out' = Append(iters[i].out, End)]_vars

\* An exhausted stream was pulled twice more.
C17_Witness ==
    LET s == iters["a"]
        n == Len(s.out)
    IN  /\ s.phase = "done"
        /\ n >= 3
        /\ s.out[n] = End
        /\ s.out[n - 1] = End
        /\ s.out[n - 2].kind = "Batch"

\* C16: the first page request of every stream carries the offset of the
\* base request (or the default), with nothing yielded and no target
\* recorded, however far the other stream has advanced; and a step that
\* changes the cursor of one stream leaves the other stream as it was.
C16_OwnCursor ==
    /\ [](\A i \in Streams :
             LET s == iters[i]
             IN  (s.phase = "awaiting" /\ Len(s.pages) = 1 /\ HasOptions) =>
                    /\ s.pages[1].options[1].offset = Some(BaseOffset)
                    /\ s.offset = BaseOffset
                    /\ s.yielded = 0
                    /\ s.total_xacts = None)
    /\ [][\A i \in Streams :
             iters[i]' # iters[i] =>
                \A j \in Streams \ {i} : iters[j]' = iters[j]]_vars

\* Stream a has been advanced past its second page request when stream b
\* sends its first one.
C16_Witness ==
    /\ Len(iters["a"].pages) >= 2
    /\ iters["a"].yielded >= 1
    /\ iters["a"].offset > BaseOffset
    /\ iters["b"].phase = "awaiting"
    /\ Len(iters["b"].pages) = 1
    /\ iters["b"].pages[1].options[1].offset = Some(BaseOffset)

\* C18: in every interleaving of the dispatches of two streams on one
\* client, no step changes the client's environment or credentials; every
\* request in flight carries the client's credential headers and starts with
\* the URL of its environment; and each element a stream hands out is what
\* its own dispatch returned for its own page request.
C18_ClientReadOnly ==
    /\ [][env' = env /\ credentials' = credentials]_vars
    /\ [](\A i \in Streams :
             LET s == iters[i]
                 base == to_string(env)
             IN  /\ s.phase = "awaiting" =>
                       /\ s.post.headers[HEADER_CLIENT_ID] = credentials.client_id
                       /\ s.post.headers[HEADER_CLIENT_SECRET] = credentials.secret
                       /\ Len(s.post.url) > Len(base)
                       /\ SubSeq(s.post.url, 1, Len(base)) = base
                 /\ \A k \in 1..Len(s.results) :
                       s.results[k].kind = "Ok" =>
                          s.results[k].value = GetTransactionsResponse(server.N, s.pages[k])
                 /\ \A k \in DOMAIN s.out \cap DOMAIN s.results :
                       s.out[k] = IF s.results[k].kind = "Ok"
                                  THEN Batch(s.results[k].value.transactions)
                                  ELSE Failed(s.results[k]))

\* Two dispatches of one production client are in flight at once, for
\* different pages.
C18_Witness ==
    /\ env = Production
    /\ iters["a"].phase = "awaiting"
    /\ iters["b"].phase = "awaiting"
    /\ Len(iters["a"].pages) = 2
    /\ Len(iters["b"].pages) = 1
    /\ iters["a"].post.headers[HEADER_CLIENT_SECRET] = credentials.secret
    /\ iters["b"].post.headers[HEADER_CLIENT_SECRET] = credentials.secret

\* The loop condition of transactions_iter holds for the cursor s.
MayFetch(s) == s.total_xacts = None \/ s.total_xacts[1] > s.yielded

\* C21: a page request is sent only from a cursor with no target recorded or
\* with yielded strictly below the target; the first pull of every stream
\* sends a page request; and a pull of a stream whose yielded count has
\* reached its target ends the stream, with no request and no batch.
C21_ConditionBeforeFetch ==
    [][\A i \in Streams :
          LET s == iters[i]
              t == iters[i]'
          IN  /\ Len(t.pages) > Len(s.pages) => MayFetch(s)
              /\ (s.pulls = 0 /\ t.pulls = 1) => Len(t.pages) = 1
              /\ (s.phase = "suspended" /\ ~MayFetch(s) /\ t.pulls > s.pulls) =>
                    /\ t.phase = "done"
                    /\ t.pages = s.pages
                    /\ t.out = Append(s.out, End)]_vars

\* The offset a page request carries.
OffsetOf(r) == r.options[1].offset[1]

\* The number of transactions a dispatch returned.
BatchSize(r) == IF r.kind = "Ok" THEN Len(r.value.transactions) ELSE 0

RECURSIVE Cumulative(_, _)
\* b1 + ... + bk for the first k dispatch results.
Cumulative(results, k) ==
    IF k = 0 THEN 0 ELSE BatchSize(results[k]) + Cumulative(results, k - 1)

\* C22: after k page responses the yielded count is b1 + ... + bk; page
\* request k + 1 carries the offset of request k plus b1 + ... + bk; the
\* offsets of successive page requests never decrease.
C22_OffsetByCumulativeYield ==
    \A i \in Streams :
        LET s == iters[i]
        IN  /\ s.yielded = Cumulative(s.results, Len(s.results))
            /\ \A k \in 1..(Len(s.pages) - 1) :
                  /\ OffsetOf(s.pages[k + 1]) =
                        OffsetOf(s.pages[k]) + Cumulative(s.results, k)
                  /\ OffsetOf(s.pages[k + 1]) >= OffsetOf(s.pages[k])

\* Two batches of one transaction each: the third request carries the offset
\* of the second plus two.
C22_Witness ==
    LET s == iters["a"]
    IN  /\ Len(s.pages) = 3
        /\ BatchSize(s.results[1]) = 1
        /\ BatchSize(s.results[2]) = 1
        /\ OffsetOf(s.pages[2]) = 1
        /\ OffsetOf(s.pages[3]) = 3

\* C23: no target is recorded before the first response; from the first
\* response on, whatever later responses report, the target is the
\* total_transactions of the first response minus the offset of the first
\* page request.
C23_TargetRecordedOnce ==
    \A i \in Streams :
        LET s == iters[i]
        IN  /\ Len(s.results) = 0 => s.total_xacts = None
            /\ (Len(s.results) >= 1 /\ s.results[1].kind = "Ok") =>
                  s.total_xacts =
                     Some(s.results[1].value.total_transactions - OffsetOf(s.pages[1]))

\* C24: a stream has at most one page request without a response, and it
\* has one exactly while it awaits; the request for page k + 1 is sent only
\* by a stream that is not awaiting, after k responses were received and,
\* when page k succeeded, after its batch was handed out and the cursor
\* advanced by it.
C24_OnePageInFlightInOrder ==
    /\ [](\A i \in Streams :
             LET s == iters[i]
             IN  /\ Len(s.pages) - Len(s.results) \in {0, 1}
                 /\ Len(s.pages) - Len(s.results) = 1 <=> s.phase = "awaiting")
    /\ [][\A i \in Streams :
             LET s == iters[i]
                 k == Len(s.pages)
             IN  Len(iters[i]'.pages) > k =>
                    /\ Len(iters[i]'.pages) = k + 1
                    /\ s.phase # "awaiting"
                    /\ Len(s.results) = k
                    /\ Len(s.out) = k
                    /\ s.yielded = Cumulative(s.results, k)
                    /\ k >= 1 => s.out[k] = Batch(s.results[k].value.transactions)]_vars

\* The second page request is in flight after the first batch was handed out.
C24_Witness ==
    LET s == iters["a"]
    IN  /\ s.phase = "awaiting"
        /\ Len(s.pages) = 2
        /\ Len(s.results) = 1
        /\ Len(s.out) = 1
        /\ s.out[1].kind = "Batch"

\* C27: when the first response reports total_transactions below the offset
\* of the first page request, the stream does not abort, its target is zero,
\* and it ends after that batch: the first page request stays the only one.
C27_NoUnderflow ==
    \A i \in Streams :
        LET s == iters[i]
        IN  ( /\ Len(s.results) >= 1
              /\ s.results[1].kind = "Ok"
              /\ s.results[1].value.total_transactions < OffsetOf(s.pages[1]) )
            => /\ s.phase # "panicked"
               /\ s.total_xacts = Some(0)
               /\ Len(s.pages) = 1

\* The positions of the batches of out that came back empty.
EmptyBatches(out) == {k \in DOMAIN out : out[k] = Batch(<<>>)}

\* C25: with a server that answers every page request from one list of N
\* transactions, a stream with page size c >= 1 and first offset o0 <= N
\* sends at most N - o0 + 1 page requests (every page but the last brings a
\* transaction) and gets at most one empty page: it does not go on
\* requesting pages that come back empty.
C25_FinitelyManyRequests ==
    \A i \in Streams :
        LET s == iters[i]
        IN  ( /\ HasOptions
              /\ server.faithful
              /\ s.phase \notin {"absent", "created"}
              /\ BaseCount >= 1
              /\ BaseOffset <= server.N )
            => /\ Len(s.pages) <= server.N - BaseOffset + 1
               /\ Cardinality(EmptyBatches(s.out)) <= 1

RECURSIVE Items(_)
\* The concatenation of the batches of a sequence of elements.
Items(out) ==
    IF out = <<>> THEN <<>> ELSE Head(out).items \o Items(Tail(out))

\* C26: with a server that answers every page request from one ordered list,
\* the transactions a stream started at offset o0 has yielded are, in order,
\* those at positions o0, o0 + 1, o0 + 2, ...: none twice, none skipped.
C26_ContiguousRun ==
    \A i \in Streams :
        LET s == iters[i]
            xs == Items(s.out)
        IN  (HasOptions /\ server.faithful) =>
               \A k \in DOMAIN xs : xs[k] = BaseOffset + k - 1

\* C28: every page request of a stream carries the access_token,
\* start_date, end_date, account_ids and include_original_description of the
\* base request and, as count, the count of the base request or 100 when
\* that is absent; two successive page requests differ in the offset only.
C28_OnlyOffsetChanges ==
    \A i \in Streams :
        LET s == iters[i]
        IN  /\ \A k \in DOMAIN s.pages :
                  LET r == s.pages[k]
                  IN  /\ r.access_token = baseReq.access_token
                      /\ r.start_date = baseReq.start_date
                      /\ r.end_date = baseReq.end_date
                      /\ r.options # None
                      /\ r.options[1].account_ids = baseReq.options[1].account_ids
                      /\ r.options[1].include_original_description =
                            baseReq.options[1].include_original_description
                      /\ r.options[1].count = Some(BaseCount)
            /\ \A k \in 1..(Len(s.pages) - 1) :
                  [s.pages[k + 1] EXCEPT !.options[1].offset = s.pages[k].options[1].offset]
                     = s.pages[k]

\* Two page requests of a stream whose base request filters by account and
\* leaves the offset to the default.
C28_Witness ==
    LET s == iters["a"]
    IN  /\ Len(s.pages) = 2
        /\ baseReq.options[1].account_ids = Some("account-id")
        /\ baseReq.options[1].include_original_description = Some("true")
        /\ baseReq.options[1].count = Some(1)
        /\ baseReq.options[1].offset = None
        /\ s.pages[2].options[1].account_ids = Some("account-id")
        /\ s.pages[2].options[1].count = Some(1)
        /\ OffsetOf(s.pages[2]) # OffsetOf(s.pages[1])

-----------------------------------------------------------------------------
(* The two dispatchers compared.                                           *)

\* What Plaid::request makes of the response handed to
\* api::create_link_token_response.
RequestInterpreted ==
    interpret([name |-> "CreateLinkTokenRequest", serializable |-> TRUE], apiResponse)

\* C29: for every status code and every body that is a JSON object which
\* both dispatchers can deserialize, Plaid::request reports success exactly
\* when api::create_link_token_response returns Ok, and an application error
\* exactly when it returns Err.
C29_SameClassification ==
    ( /\ pc = "returned"
      /\ apiResponse.body.json
      /\ apiInterpreted.kind \in {"Ok", "Err"}
      /\ RequestInterpreted.kind \in {"Ok", "App"} ) =>
        /\ RequestInterpreted.kind = "Ok" <=> apiInterpreted.kind = "Ok"
        /\ RequestInterpreted.kind = "App" <=> apiInterpreted.kind = "Err"

-----------------------------------------------------------------------------
(* Properties of the Builder.                                              *)

\* The calls that set the given field.
Setters(field) == {k \in DOMAIN calls : calls[k].field = field}

\* The last element of a non-empty set of positions.
Last(ks) == CHOOSE k \in ks : \A j \in ks : j <= k

\* What build is to return for a field: the value of the last call that set
\* it, or the default of the field.
Expected(field, default) ==
    IF Setters(field) = {} THEN default ELSE calls[Last(Setters(field))].value

\* C30: after any sequence of with_credentials, with_env and
\* with_http_client calls, build returns a client that holds, for each of the
\* three fields, the value of the last call that set the field, or the
\* default of a field that was never set (empty client_id and secret,
\* Environment::Sandbox, the H1 client); and a call that sets one field
\* leaves the other two fields of the Builder as they were.
C30_BuilderLastValueOrDefault ==
    /\ [](built.made =>
             /\ built.http = Expected("http", H1Client)
             /\ built.credentials = Expected("credentials", DefaultCredentials)
             /\ built.env = Expected("env", DefaultEnvironment))
    /\ [][Len(calls') = Len(calls) + 1 =>
             \A f \in {"http", "credentials", "env"} \ {calls'[Len(calls')].field} :
                builder'[f] = builder[f]]_vars

\* The environment was set twice and the credentials before and between:
\* the client holds the second environment, the credentials and the H1
\* client.
C30_Witness ==
    /\ built.made
    /\ Len(calls) = 3
    /\ calls[1].field = "env"
    /\ calls[1].value = Production
    /\ calls[2].field = "credentials"
    /\ calls[3].field = "env"
    /\ calls[3].value = Development
    /\ built.env = Development
    /\ built.credentials = calls[2].value
    /\ built.http = H1Client

=============================================================================
